---------------------------- MODULE Spec2Model ----------------------------
(***************************************************************************)
(* A model of scraper/runners/async_runner.py: class AsyncRunner.          *)
(*                                                                         *)
(* One cooperative control coroutine (run) seeds the crawl, waits for any  *)
(* Fetch Task to complete and handles every completed task; Fetch Tasks    *)
(* (_download) run on the same event loop and take steps only while run    *)
(* is suspended in asyncio.wait.                                           *)
(***************************************************************************)
EXTENDS Integers, Sequences, FiniteSets, TLC

(***************************************************************************)
(* Bounds of the model.                                                    *)
(***************************************************************************)
MaxSeeds == 2          \* longest seed list
MaxTriesBound == 2     \* largest max_tries
MaxParallelBound == 2  \* largest max_parallel
MaxNext == 1           \* longest next_urls list of a Fetch Result

UrlOrder == <<"u1", "u2", "u3">>
Urls == {UrlOrder[k] : k \in DOMAIN UrlOrder}
Players == {"p1", "p2"}
Errors == {"TimeoutError", "ParseError"}

\* An optional value: None, or Some(x).
None == <<>>
Some(x) == <<x>>
Get(o) == o[1]

Range(fn) == {fn[x] : x \in DOMAIN fn}

SeqsUpTo(S, n) == UNION {[1..k -> S] : k \in 0..n}

(***************************************************************************)
(* The parser's Fetch Results: a dictionary that may hold the keys         *)
(* from_team_page (a list of players) and from_player_page (one player),   *)
(* and holds next_urls.  A key the dictionary does not hold is None here.  *)
(***************************************************************************)
TeamLists == {<<"p1", "p2">>}
PlayerPages == {"p1"}
Results ==
    [from_team_page : {None} \cup {Some(l) : l \in TeamLists},
     from_player_page : {None} \cup {Some(p) : p \in PlayerPages},
     next_urls : SeqsUpTo(Urls, MaxNext)]

(***************************************************************************)
(* The seed lists.  The runner treats every URL alike, so of the lists     *)
(* that differ only by a renaming of the URLs one is kept: the one that    *)
(* names the URLs in the order of UrlOrder.  A list may repeat a URL.      *)
(***************************************************************************)
Canonical(s) ==
    \A k \in DOMAIN s : \E j \in DOMAIN UrlOrder :
        /\ j <= k
        /\ s[k] = UrlOrder[j]
        /\ j = 1 \/ \E m \in 1..(k - 1) : s[m] = UrlOrder[j - 1]

SeedLists == {s \in SeqsUpTo(Urls, MaxSeeds) : Canonical(s)}

\* str(e) of line 55: the description of an error.
ErrStr(e) == "error: " \o e

VARIABLES
    seed_urls,       \* self._seed_urls
    max_tries,       \* self._max_tries
    max_parallel,    \* the permits asyncio.Semaphore was built with
    semaphore,       \* the free permits of self._semaphore
    items,           \* every Item ever constructed: <<[url, tries]>>
    tasks,           \* every future _submit created: <<[item, st]>>
    in_air,          \* self._in_air: a set of futures
    future_to_item,  \* self._future_to_item
    seen,            \* self._seen
    sink,            \* the records passed to self._sink.write, in order
    pl_storage,      \* the entity storage: player -> the parts merged so far
    pc,              \* where run stands
    seed_idx,        \* the position of run's seeding loop in seed_urls
    done,            \* the completed futures run has still to handle
    result,          \* run's local variable result (line 51): the last result read
    fatal,           \* the exception that ended run, or "None"
    ordered,         \* whether the order of completion is kept in finished
    finished,        \* the futures of the current batch, in the order they completed
    delays           \* future -> the calls of get_delay its task has made

vars == <<seed_urls, max_tries, max_parallel, semaphore, items, tasks, in_air,
          future_to_item, seen, sink, pl_storage, pc, seed_idx, done, fatal, result,
          ordered, finished, delays>>

config == <<seed_urls, max_tries, max_parallel, ordered>>

(***************************************************************************)
(* __init__ (lines 10-22).                                                 *)
(***************************************************************************)
Construct ==
    /\ seed_urls \in SeedLists
    /\ max_tries \in 0..MaxTriesBound
    /\ max_parallel \in 1..MaxParallelBound
    /\ semaphore = max_parallel
    /\ items = <<>>
    /\ tasks = <<>>
    /\ in_air = {}
    /\ future_to_item = <<>>
    /\ seen = {}
    /\ sink = <<>>
    /\ pl_storage = [p \in Players |-> {}]
    /\ pc = "seeding"
    /\ seed_idx = 1
    /\ done = {}
    /\ fatal = "None"
    /\ result = None
    /\ finished = <<>>
    /\ delays = <<>>

Init == Construct /\ ordered = FALSE

\* the same runs, with the order in which the futures of a batch completed
InitOrdered == Construct /\ ordered = TRUE

(***************************************************************************)
(* The scheduler's own state as one value, so that a handler that submits  *)
(* several items is one step.                                              *)
(***************************************************************************)
Loop ==
    [items |-> items, tasks |-> tasks, in_air |-> in_air,
     future_to_item |-> future_to_item, seen |-> seen]

\* Item(url) of runners/item.py: tries starts at 0.
NewItem(s, url) ==
    [s EXCEPT !.items = Append(@, [url |-> url, tries |-> 0])]

\* _submit without its line 31: the URL is not recorded as seen
Submit_NoSeen(s, i) ==
    LET future == Len(s.tasks) + 1 IN
    [s EXCEPT
        !.items[i].tries = @ + 1,
        !.tasks = Append(@, [item |-> i, st |-> "pending"]),
        !.in_air = @ \cup {future},
        !.future_to_item = @ @@ (future :> i)]

\* _submit (lines 24-31)
Submit(s, i) ==
    LET future == Len(s.tasks) + 1 IN
    [s EXCEPT
        !.items[i].tries = @ + 1,
        !.tasks = Append(@, [item |-> i, st |-> "pending"]),
        !.in_air = @ \cup {future},
        !.future_to_item = @ @@ (future :> i),
        !.seen = @ \cup {s.items[i].url}]

SetLoop(s) ==
    /\ items' = s.items
    /\ tasks' = s.tasks
    /\ in_air' = s.in_air
    /\ future_to_item' = s.future_to_item
    /\ seen' = s.seen

\* run, lines 43-44: one iteration of the seeding loop.
Seed ==
    /\ pc = "seeding"
    /\ seed_idx <= Len(seed_urls)
    /\ LET s == NewItem(Loop, seed_urls[seed_idx]) IN
       SetLoop(Submit(s, Len(s.items)))
    /\ seed_idx' = seed_idx + 1
    /\ UNCHANGED <<config, semaphore, sink, pl_storage, pc, done, fatal, result,
                   finished, delays>>

\* a while test that never ends the loop
WhileTest_Always(air) == "waiting"

\* run, line 45: the while test, reached when the seeding loop ends.
WhileTest(air) == IF air = {} THEN "done" ELSE "waiting"

EnterLoop ==
    /\ pc = "seeding"
    /\ seed_idx > Len(seed_urls)
    /\ pc' = WhileTest(in_air)
    /\ UNCHANGED <<config, semaphore, items, tasks, in_air, future_to_item,
                   seen, sink, pl_storage, seed_idx, done, fatal, result,
                   finished, delays>>

(***************************************************************************)
(* _download (lines 33-40): the steps of one Fetch Task.  A task runs only *)
(* while run is suspended in asyncio.wait (line 46), or after run has      *)
(* ended with an exception: the tasks left are then the event loop's, which *)
(* may run them on, cancel them or stop.                                   *)
(***************************************************************************)
TasksRun == pc \in {"waiting", "crashed"}

Completed(t) == t.st \in {"ok", "err"}
InSemaphore(t) == t.st \in {"delay", "fetch"}

\* line 35: self._rate_limiter.get_delay() is called, in the same run of the
\* task that entered the semaphore block
GetDelay(d, f) ==
    IF f \in DOMAIN d THEN [d EXCEPT ![f] = @ + 1] ELSE d @@ (f :> 1)

\* the task of future f completes: the event loop marks the future done.  The
\* order is kept for the futures of one batch, those that complete between
\* two returns of asyncio.wait, until run has handled the batch.
Finish(f) == IF ordered THEN Append(finished, f) ELSE finished

\* a semaphore that never makes a task wait
Acquire_NoWait(f) ==
    /\ TasksRun
    /\ tasks[f].st = "pending"
    /\ semaphore' = semaphore - 1
    /\ tasks' = [tasks EXCEPT ![f].st = "delay"]
    /\ delays' = GetDelay(delays, f)
    /\ UNCHANGED <<config, items, in_air, future_to_item, seen, sink,
                   pl_storage, pc, seed_idx, done, fatal, result, finished>>

\* a semaphore that lets one task too many in
Acquire_OffByOne(f) ==
    /\ TasksRun
    /\ tasks[f].st = "pending"
    /\ semaphore >= 0
    /\ semaphore' = semaphore - 1
    /\ tasks' = [tasks EXCEPT ![f].st = "delay"]
    /\ delays' = GetDelay(delays, f)
    /\ UNCHANGED <<config, items, in_air, future_to_item, seen, sink,
                   pl_storage, pc, seed_idx, done, fatal, result, finished>>

\* a task that fetches as soon as it has its permit, line 35 left out
Acquire_NoDelay(f) ==
    /\ TasksRun
    /\ tasks[f].st = "pending"
    /\ semaphore > 0
    /\ semaphore' = semaphore - 1
    /\ tasks' = [tasks EXCEPT ![f].st = "fetch"]
    /\ UNCHANGED <<config, items, in_air, future_to_item, seen, sink,
                   pl_storage, pc, seed_idx, done, fatal, result, finished,
                   delays>>

\* line 34: async with self._semaphore, entered
Acquire(f) ==
    /\ TasksRun
    /\ tasks[f].st = "pending"
    /\ semaphore > 0
    /\ semaphore' = semaphore - 1
    /\ tasks' = [tasks EXCEPT ![f].st = "delay"]
    /\ delays' = GetDelay(delays, f)
    /\ UNCHANGED <<config, items, in_air, future_to_item, seen, sink,
                   pl_storage, pc, seed_idx, done, fatal, result, finished>>

\* line 35: the rate limiter's delay has been waited
Sleep(f) ==
    /\ TasksRun
    /\ tasks[f].st = "delay"
    /\ tasks' = [tasks EXCEPT ![f].st = "fetch"]
    /\ UNCHANGED <<config, semaphore, items, in_air, future_to_item, seen,
                   sink, pl_storage, pc, seed_idx, done, fatal, result,
                   finished, delays>>

\* a task that runs beside run, as a thread would, and not only while run waits
FetchOk_Anytime(f) ==
    /\ tasks[f].st = "fetch"
    /\ semaphore' = semaphore + 1
    /\ tasks' = [tasks EXCEPT ![f].st = "ok"]
    /\ finished' = Finish(f)
    /\ UNCHANGED <<config, items, in_air, future_to_item, seen, sink,
                   pl_storage, pc, seed_idx, done, fatal, result, delays>>

\* lines 36-40: the fetch and the parse succeed; the semaphore block is left.
\* Nothing reads the value the future holds before line 51, where it is drawn.
FetchOk(f) ==
    /\ TasksRun
    /\ tasks[f].st = "fetch"
    /\ semaphore' = semaphore + 1
    /\ tasks' = [tasks EXCEPT ![f].st = "ok"]
    /\ finished' = Finish(f)
    /\ UNCHANGED <<config, items, in_air, future_to_item, seen, sink,
                   pl_storage, pc, seed_idx, done, fatal, result, delays>>

\* a task that keeps its permit when an exception ends it
FetchFail_KeepPermit(f) ==
    /\ TasksRun
    /\ InSemaphore(tasks[f])
    /\ semaphore' = semaphore
    /\ tasks' = [tasks EXCEPT ![f].st = "err"]
    /\ finished' = Finish(f)
    /\ UNCHANGED <<config, items, in_air, future_to_item, seen, sink,
                   pl_storage, pc, seed_idx, done, fatal, result, delays>>

\* lines 35-40: an exception leaves the semaphore block.  Nothing reads the
\* exception the future holds before line 51, where it is drawn.
FetchFail(f) ==
    /\ TasksRun
    /\ InSemaphore(tasks[f])
    /\ semaphore' = semaphore + 1
    /\ tasks' = [tasks EXCEPT ![f].st = "err"]
    /\ finished' = Finish(f)
    /\ UNCHANGED <<config, items, in_air, future_to_item, seen, sink,
                   pl_storage, pc, seed_idx, done, fatal, result, delays>>

(***************************************************************************)
(* run, lines 46-47: asyncio.wait(FIRST_COMPLETED) returns every future of *)
(* _in_air that has completed by the time run resumes, and the rest.       *)
(***************************************************************************)
DoneOf(air) == {f \in air : Completed(tasks[f])}

\* a wait that returns one completed future and leaves the others in _in_air
Wait_One ==
    /\ pc = "waiting"
    /\ \E f \in DoneOf(in_air) :
          /\ done' = {f}
          /\ in_air' = in_air \ {f}
    /\ pc' = "handling"
    /\ UNCHANGED <<config, semaphore, items, tasks, future_to_item, seen,
                   sink, pl_storage, seed_idx, fatal, result, finished, delays>>

Wait ==
    /\ pc = "waiting"
    /\ DoneOf(in_air) # {}
    /\ done' = DoneOf(in_air)
    /\ in_air' = in_air \ DoneOf(in_air)
    /\ pc' = "handling"
    /\ UNCHANGED <<config, semaphore, items, tasks, future_to_item, seen,
                   sink, pl_storage, seed_idx, fatal, result, finished, delays>>

\* a pop that also takes the URL of the item out of _seen
Pop_Unsee(s, f) ==
    [s EXCEPT
        !.future_to_item =
            [g \in DOMAIN s.future_to_item \ {f} |-> s.future_to_item[g]],
        !.tasks[f].st = "handled",
        !.seen = @ \ {s.items[s.future_to_item[f]].url}]

\* line 49: self._future_to_item.pop(future).  Nothing refers to the future
\* any more once the step that pops it ends.
Pop(s, f) ==
    [s EXCEPT
        !.future_to_item =
            [g \in DOMAIN s.future_to_item \ {f} |-> s.future_to_item[g]],
        !.tasks[f].st = "handled"]

\* _write without its test of line 78
WriteInvalid_Never(res, error) == FALSE

\* _write, line 78: the test that makes _write raise RuntimeError
WriteInvalid(res, error) == res = None /\ error = None

\* a record that counts the tries before the last dispatch
ToWrite_TriesBefore(item, res, error) ==
    [url |-> item.url, tries |-> item.tries - 1, result |-> res,
     error |-> error]

\* _write, line 80
ToWrite(item, res, error) ==
    [url |-> item.url, tries |-> item.tries, result |-> res, error |-> error]

\* a _write that makes its test of line 78 after the call of line 81
Write_TestLast(snk, item, res, error, sinkRaises) ==
    IF sinkRaises
    THEN [raised |-> "SinkError", sink |-> snk]
    ELSE [raised |-> IF WriteInvalid(res, error) THEN "RuntimeError" ELSE "None",
          sink |-> Append(snk, ToWrite(item, res, error))]

\* _write (lines 77-81): what it raises, and the sink after it.  sinkRaises
\* tells whether self._sink.write raises; a record it raises on is not kept.
Write(snk, item, res, error, sinkRaises) ==
    IF WriteInvalid(res, error)
    THEN [raised |-> "RuntimeError", sink |-> snk]
    ELSE IF sinkRaises
    THEN [raised |-> "SinkError", sink |-> snk]
    ELSE [raised |-> "None", sink |-> Append(snk, ToWrite(item, res, error))]

\* the Retry Policy's test with > for >=
Exhausted_OffByOne(item) == item.tries > max_tries

\* line 54: the Retry Policy's test
Exhausted(item) == item.tries >= max_tries

\* a for loop that ends after the first future it handles
Advance_Break(f, air) ==
    /\ done' = {}
    /\ pc' = WhileTest(air)
    /\ fatal' = fatal
    /\ finished' = <<>>

\* the for loop of line 48 moves on, or ends and the while test is made
Advance(f, air) ==
    /\ done' = done \ {f}
    /\ pc' = IF done \ {f} # {} THEN "handling" ELSE WhileTest(air)
    /\ fatal' = fatal
    /\ finished' = IF done \ {f} # {} THEN finished ELSE <<>>

\* an exception that run catches and logs: the for loop moves on
Crash_Swallow(f, exc) ==
    /\ done' = done \ {f}
    /\ pc' = IF done \ {f} # {} THEN "handling" ELSE WhileTest(in_air)
    /\ fatal' = exc
    /\ finished' = finished

\* an exception that run does not catch ends it
Crash(f, exc) ==
    /\ done' = done \ {f}
    /\ pc' = "crashed"
    /\ fatal' = exc
    /\ finished' = finished

\* an except block that gives up at once on a parse error
HandleFailure_ParseFinal(f, e, fault) ==
    /\ pc = "handling"
    /\ f \in done
    /\ tasks[f].st = "err"
    /\ fault \in {"none", "sink_raises"}
    /\ LET i == future_to_item[f]
           s == Pop(Loop, f)
           w == Write(sink, items[i], None, Some(ErrStr(e)),
                      fault = "sink_raises")
       IN IF Exhausted(items[i]) \/ e = "ParseError"
          THEN /\ SetLoop(s)
               /\ sink' = w.sink
               /\ IF w.raised # "None"
                  THEN Crash(f, w.raised)
                  ELSE Advance(f, s.in_air)
          ELSE /\ fault = "none"
               /\ SetLoop(Submit(s, i))
               /\ Advance(f, Submit(s, i).in_air)
               /\ sink' = sink
    /\ UNCHANGED <<config, semaphore, pl_storage, seed_idx, result, delays>>

(***************************************************************************)
(* run, lines 49-59: a completed future whose result() raises e.           *)
(* fault names what the collaborators do during this step.                 *)
(***************************************************************************)
HandleFailure(f, e, fault) ==
    /\ pc = "handling"
    /\ f \in done
    /\ tasks[f].st = "err"
    /\ fault \in {"none", "sink_raises"}
    /\ LET i == future_to_item[f]
           s == Pop(Loop, f)
           w == Write(sink, items[i], None, Some(ErrStr(e)),
                      fault = "sink_raises")
       IN IF Exhausted(items[i])
          THEN /\ SetLoop(s)
               /\ sink' = w.sink
               /\ IF w.raised # "None"
                  THEN Crash(f, w.raised)
                  ELSE Advance(f, s.in_air)
          ELSE /\ fault = "none"
               /\ SetLoop(Submit(s, i))
               /\ Advance(f, Submit(s, i).in_air)
               /\ sink' = sink
    /\ UNCHANGED <<config, semaphore, pl_storage, seed_idx, result, delays>>

(***************************************************************************)
(* The entity storage (utils, not under src/): add_player creates or       *)
(* overwrites the record of a player, extend_player merges the detail      *)
(* fields into it and returns the merged record.                           *)
(***************************************************************************)
RECURSIVE AddPlayers(_, _)
AddPlayers(st, players) ==
    IF players = <<>> THEN st
    ELSE AddPlayers([st EXCEPT ![Head(players)] = {"team"}], Tail(players))

ExtendPlayer(st, p) == [st EXCEPT ![p] = @ \cup {"player"}]

Merged(st, p) == [url |-> p, parts |-> st[p]]

(***************************************************************************)
(* _handle_result (lines 67-75)                                            *)
(***************************************************************************)
TeamBranch(r) == r.from_team_page # None

\* line 71 with if for elif
PlayerBranch_If(r) == r.from_player_page # None

PlayerBranch(r) ==
    ~TeamBranch(r) /\ r.from_player_page # None

StorageAfter(st, r) ==
    IF TeamBranch(r) THEN AddPlayers(st, Get(r.from_team_page))
    ELSE IF PlayerBranch(r) THEN ExtendPlayer(st, Get(r.from_player_page))
    ELSE st

\* lines 62-64 without the test of line 63
RECURSIVE SubmitNext_NoCheck(_, _)
SubmitNext_NoCheck(s, urls) ==
    IF urls = <<>> THEN s
    ELSE LET n == NewItem(s, Head(urls))
         IN SubmitNext_NoCheck(Submit(n, Len(n.items)), Tail(urls))

\* lines 62-64 with a test against the URLs of the live Items only
RECURSIVE SubmitNext_LiveOnly(_, _)
SubmitNext_LiveOnly(s, urls) ==
    IF urls = <<>> THEN s
    ELSE LET url == Head(urls)
             n == NewItem(s, url)
             live == {s.items[i].url : i \in Range(s.future_to_item)}
         IN SubmitNext_LiveOnly(
                IF url \notin live THEN Submit(n, Len(n.items)) ELSE s,
                Tail(urls))

\* run, lines 62-64
RECURSIVE SubmitNext(_, _)
SubmitNext(s, urls) ==
    IF urls = <<>> THEN s
    ELSE LET url == Head(urls)
             n == NewItem(s, url)
         IN SubmitNext(IF url \notin s.seen THEN Submit(n, Len(n.items)) ELSE s,
                       Tail(urls))

\* lines 69-70 and 73 when a call of the storage raises: the calls of
\* add_player made before it have added their players; a raising
\* extend_player has merged nothing
AddsBeforeRaise(r) ==
    IF TeamBranch(r) THEN 0..(Len(Get(r.from_team_page)) - 1) ELSE {0}

PartlyAdded(st, r, k) ==
    IF TeamBranch(r) THEN AddPlayers(st, SubSeq(Get(r.from_team_page), 1, k))
    ELSE st

CallsStorage(r) ==
    \/ TeamBranch(r) /\ Get(r.from_team_page) # <<>>
    \/ PlayerBranch(r)

(***************************************************************************)
(* run, lines 49-51 and 60-65: a completed future that holds r.       *)
(***************************************************************************)
HandleSuccess(f, r, fault) ==
    /\ pc = "handling"
    /\ f \in done
    /\ tasks[f].st = "ok"
    /\ LET i == future_to_item[f]
           s == Pop(Loop, f)
           st == StorageAfter(pl_storage, r)
           player == IF fault = "extend_none" \/ ~PlayerBranch(r) THEN None
                     ELSE Some(Merged(st, Get(r.from_player_page)))
           w == Write(sink, items[i], player, None, fault = "sink_raises")
       IN /\ fault = "storage_raises" => CallsStorage(r)
          /\ fault \in {"extend_none", "sink_raises"} => PlayerBranch(r)
          /\ IF fault = "storage_raises"
             THEN /\ Crash(f, "StorageError")
                  /\ SetLoop(s)
                  /\ sink' = sink
                  /\ \E k \in AddsBeforeRaise(r) :
                        pl_storage' = PartlyAdded(pl_storage, r, k)
             ELSE IF PlayerBranch(r) /\ w.raised # "None"
             THEN /\ Crash(f, w.raised)
                  /\ SetLoop(s)
                  /\ pl_storage' = st
                  /\ sink' = w.sink
             ELSE /\ pl_storage' = st
                  /\ sink' = IF PlayerBranch(r) THEN w.sink ELSE sink
                  /\ SetLoop(SubmitNext(s, r.next_urls))
                  /\ Advance(f, SubmitNext(s, r.next_urls).in_air)
    /\ result' = Some(r)
    /\ UNCHANGED <<config, semaphore, seed_idx, delays>>

Futures == DOMAIN tasks

\* a step of some Fetch Task
AcquireSome == \E f \in Futures : Acquire(f)
SleepSome == \E f \in Futures : Sleep(f)
FetchOkSome == \E f \in Futures : FetchOk(f)
FetchFailSome == \E f \in Futures : FetchFail(f)

TaskStep == AcquireSome \/ SleepSome \/ FetchOkSome \/ FetchFailSome

\* after run has ended with an exception the event loop may cancel a task that
\* has not entered the semaphore block; a task inside it is ended by the
\* CancelledError as by any exception (FetchFail)
Cancel(f) ==
    /\ pc = "crashed"
    /\ tasks[f].st = "pending"
    /\ tasks' = [tasks EXCEPT ![f].st = "cancelled"]
    /\ UNCHANGED <<config, semaphore, items, in_air, future_to_item, seen,
                   sink, pl_storage, pc, seed_idx, done, fatal, result,
                   finished, delays>>

CancelSome == \E f \in Futures : Cancel(f)

\* run handles one of the completed futures, in any order (done is a set)
HandleFailureSome ==
    \E f \in done, e \in Errors : HandleFailure(f, e, "none")
HandleSuccessSome ==
    \E f \in done, r \in Results : HandleSuccess(f, r, "none")

Handle == HandleFailureSome \/ HandleSuccessSome

Faults == {"storage_raises", "extend_none", "sink_raises"}

\* the same, with a collaborator that fails
HandleFailureFaulty ==
    \E f \in done, fault \in Faults, e \in Errors : HandleFailure(f, e, fault)
HandleSuccessFaulty ==
    \E f \in done, fault \in Faults, r \in Results : HandleSuccess(f, r, fault)

HandleFaulty == HandleFailureFaulty \/ HandleSuccessFaulty

\* the collaborators keep their contracts
Next == Seed \/ EnterLoop \/ TaskStep \/ Wait \/ Handle

Spec == Init /\ [][Next]_vars

\* every enabled step of the event loop is eventually taken
FairSpec == Spec /\ WF_vars(Next)

\* the sink or the storage may raise, and extend_player may return None
NextF == Next \/ HandleFaulty \/ CancelSome

SpecF == Init /\ [][NextF]_vars

\* the runs of Spec, the order of completion kept
SpecOrdered == InitOrdered /\ [][Next]_vars

(***************************************************************************)
(* What the properties below speak of.                                     *)
(***************************************************************************)
Max(a, b) == IF a >= b THEN a ELSE b

ItemsOf(u) == {i \in DOMAIN items : items[i].url = u}

TasksOfItem(i) == {f \in Futures : tasks[f].item = i}

TasksOfUrl(u) == {f \in Futures : items[tasks[f].item].url = u}

SeedCount(u) == Cardinality({k \in DOMAIN seed_urls : seed_urls[k] = u})

RecordsOf(u) == {k \in DOMAIN sink : sink[k].url = u}

\* an item that a future of f2i still stands for is live; any other has been
\* dropped
LiveIn(f2i, i) == i \in Range(f2i)

Live(i) == LiveIn(future_to_item, i)

\* the future that this step of run's for loop handles
HandledNow(f) == pc = "handling" /\ f \in done /\ f \notin done'

\* the steps of run, as against those of the tasks
RunStep == Seed \/ EnterLoop \/ Wait \/ Handle \/ HandleFaulty

\* what run reads and writes
RunState ==
    <<items, in_air, future_to_item, seen, sink, pl_storage, pc, seed_idx,
      done, result, fatal>>

TeamOnly(r) == r.from_team_page # None /\ r.from_player_page = None

PlayerOnly(r) == r.from_team_page = None /\ r.from_player_page # None

(***************************************************************************)
(* C1.  As claimed: every URL gets at most one Fetch Task in a run (here   *)
(* for the URLs that the seed list does not repeat).                       *)
(***************************************************************************)
C1_OneTaskPerUrl ==
    \A u \in Urls : SeedCount(u) <= 1 => Cardinality(TasksOfUrl(u)) <= 1

(***************************************************************************)
(* C1, amended.  A URL gets an Item from a next-URL list at most once and  *)
(* never when it is in _seen, also when several pages name it: its Items   *)
(* number at most max(1, its occurrences in the seed list), every          *)
(* submitted URL is in _seen, and each Item gets one Fetch Task per        *)
(* dispatch, at most max(1, max_tries) of them.                            *)
(***************************************************************************)
C1_Dedup ==
    \A u \in Urls :
        /\ Cardinality(ItemsOf(u)) <= Max(1, SeedCount(u))
        /\ ItemsOf(u) # {} => u \in seen
        /\ \A i \in ItemsOf(u) :
              /\ Cardinality(TasksOfItem(i)) = items[i].tries
              /\ items[i].tries <= Max(1, max_tries)

\* u3 is not a seed, has been fetched and written as a player page, and the
\* result handled last, a team page and so another page's, names u3 again:
\* two pages have named u3 and it has one Item and one Fetch Task.
C1_Witness ==
    /\ seed_urls = <<"u1", "u2">>
    /\ max_tries = 1
    /\ \E k \in RecordsOf("u3") : sink[k].result # None
    /\ result # None
    /\ Get(result).from_team_page # None
    /\ Get(result).next_urls = <<"u3">>
    /\ Cardinality(ItemsOf("u3")) = 1
    /\ Cardinality(TasksOfUrl("u3")) = 1

(***************************************************************************)
(* C2.  As claimed: the In-Flight Set never holds more than max_parallel   *)
(* futures.                                                                *)
(***************************************************************************)
C2_InAirBounded == Cardinality(in_air) <= max_parallel

(***************************************************************************)
(* C2, amended.  Of the futures of the In-Flight Set at most max_parallel  *)
(* hold a permit; the set also holds the futures that wait for a permit,   *)
(* and its size is bounded by the number of live Items only.               *)
(***************************************************************************)
C2_InAirPermits ==
    /\ Cardinality({f \in in_air : InSemaphore(tasks[f])}) <= max_parallel
    /\ Cardinality(in_air) <= Cardinality(DOMAIN future_to_item)
    /\ in_air \subseteq DOMAIN future_to_item

C2_Witness ==
    /\ Cardinality(in_air) > max_parallel
    /\ Cardinality({f \in in_air : InSemaphore(tasks[f])}) = max_parallel
    /\ semaphore = 0

(***************************************************************************)
(* C3.  As claimed: a terminal failure record carries tries = max_tries.   *)
(***************************************************************************)
C3_TriesIsMaxTries ==
    \A k \in DOMAIN sink : sink[k].error # None => sink[k].tries = max_tries

(***************************************************************************)
(* C3, amended.  When a dispatch of an Item fails, every dispatch of the   *)
(* Item has failed.  The Item is then dispatched again, with nothing       *)
(* written, while tries < max_tries; otherwise it is dropped with one      *)
(* failure record: tries = max(max_tries, 1) = the number of its dispatch  *)
(* attempts, error the description of the error, result null.             *)
(***************************************************************************)
C3_FailureStep ==
    \A f \in Futures :
        (HandledNow(f) /\ tasks[f].st = "err") =>
            LET i == future_to_item[f]
                t == items[i].tries
            IN /\ Cardinality(TasksOfItem(i)) = t
               /\ \A g \in TasksOfItem(i) \ {f} : tasks[g].st = "handled"
               /\ IF t < max_tries
                  THEN /\ sink' = sink
                       /\ items'[i].tries = t + 1
                       /\ LiveIn(future_to_item', i)
                  ELSE /\ t = Max(max_tries, 1)
                       /\ ~LiveIn(future_to_item', i)
                       /\ items'[i].tries = t
                       /\ Len(sink') = Len(sink) + 1
                       /\ SubSeq(sink', 1, Len(sink)) = sink
                       /\ \E e \in Errors :
                             sink'[Len(sink')] =
                                [url |-> items[i].url, tries |-> t,
                                 result |-> None, error |-> Some(ErrStr(e))]

\* C3, amended: every step of run that handles a failed future is as above.
C3_AllDispatchesFail == [][C3_FailureStep]_vars

\* an Item has failed on each of its two dispatches and has its record
C3_Witness ==
    /\ max_tries = 2
    /\ \E k \in DOMAIN sink :
          /\ sink[k].error # None
          /\ sink[k].tries = 2
          /\ Cardinality(TasksOfUrl(sink[k].url)) = 2
          /\ \A f \in TasksOfUrl(sink[k].url) : tasks[f].st = "handled"

(***************************************************************************)
(* C4.  A result that holds from_team_page and no from_player_page writes  *)
(* nothing to the sink, and every URL of its next_urls that is not in      *)
(* _seen gets an Item that is dispatched once.                             *)
(***************************************************************************)
C4_TeamStep ==
    \A f \in Futures :
        (HandledNow(f) /\ tasks[f].st = "ok" /\ TeamOnly(Get(result'))) =>
            LET urls == Range(Get(result').next_urls) IN
            /\ sink' = sink
            /\ seen' = seen \cup urls
            /\ \A u \in urls \ seen :
                  \E i \in DOMAIN items' \ DOMAIN items :
                      /\ items'[i] = [url |-> u, tries |-> 1]
                      /\ \E g \in in_air' \ in_air :
                            /\ future_to_item'[g] = i
                            /\ tasks'[g].st = "pending"
            /\ Len(items') = Len(items) + Cardinality(urls \ seen)
            /\ Len(tasks') = Len(tasks) + Cardinality(urls \ seen)

\* C4: every step of run that handles a team-page result is as above.
C4_TeamPage == [][C4_TeamStep]_vars

\* the only seed was fetched once and held a team page that names u2:
\* nothing was written and u2 is submitted
C4_Witness ==
    /\ seed_urls = <<"u1">>
    /\ max_tries = 1
    /\ result # None
    /\ TeamOnly(Get(result))
    /\ Get(result).next_urls = <<"u2">>
    /\ tasks[1].st = "handled"
    /\ Len(tasks) = 2
    /\ sink = <<>>
    /\ ItemsOf("u2") = {2}
    /\ 2 \in in_air

(***************************************************************************)
(* C5.  As claimed: a result that holds from_player_page, whatever else it *)
(* holds, has one success record written for its Item.                     *)
(***************************************************************************)
C5_AnyPlayerStep ==
    \A f \in Futures :
        (HandledNow(f) /\ tasks[f].st = "ok"
            /\ Get(result').from_player_page # None) =>
            /\ Len(sink') = Len(sink) + 1
            /\ sink'[Len(sink')].url = items[future_to_item[f]].url
            /\ sink'[Len(sink')].result # None

\* C5, as claimed: every step of run that handles a result is as above.
C5_AnyPlayerKey == [][C5_AnyPlayerStep]_vars

(***************************************************************************)
(* C5, amended.  A result that holds from_player_page and does not hold    *)
(* from_team_page has extend_player called with its entity and one record  *)
(* written for its Item: result the merged entity extend_player returned,  *)
(* error null.  A result that holds both keys is handled as a team page.   *)
(***************************************************************************)
C5_PlayerStep ==
    \A f \in Futures :
        (HandledNow(f) /\ tasks[f].st = "ok") =>
            LET r == Get(result')
                i == future_to_item[f]
            IN /\ PlayerOnly(r) =>
                    LET p == Get(r.from_player_page) IN
                    /\ pl_storage' = [pl_storage EXCEPT
                                         ![p] = pl_storage[p] \cup {"player"}]
                    /\ sink' = Append(sink,
                          [url |-> items[i].url, tries |-> items[i].tries,
                           result |-> Some([url |-> p,
                                            parts |-> pl_storage'[p]]),
                           error |-> None])
               /\ r.from_team_page # None =>
                    /\ sink' = sink
                    /\ \A p \in Players : "player" \in pl_storage'[p] =>
                                          "player" \in pl_storage[p]

\* C5, amended: every step of run that handles a result is as above.
C5_PlayerPage == [][C5_PlayerStep]_vars

\* a player page was handled last and its record is the last of the sink
C5_Witness ==
    /\ result # None
    /\ PlayerOnly(Get(result))
    /\ sink # <<>>
    /\ sink[Len(sink)].result = Some([url |-> "p1", parts |-> pl_storage["p1"]])
    /\ sink[Len(sink)].error = None
    /\ "player" \in pl_storage["p1"]

(***************************************************************************)
(* C6.  An Item that is read as a player page on its dispatch k+1, after k *)
(* failed dispatches (k < max_tries), gets its one record then: a success  *)
(* record with tries = k+1.  It is not dispatched again, and a URL that    *)
(* the seed list does not repeat never has a second record, so no failure  *)
(* record stands beside the success record.                                *)
(***************************************************************************)
C6_OneRecord ==
    \A u \in Urls :
        SeedCount(u) <= 1 =>
            /\ Cardinality(RecordsOf(u)) <= 1
            /\ \A k \in RecordsOf(u) :
                  /\ sink[k].tries = Cardinality(TasksOfUrl(u))
                  /\ \A i \in ItemsOf(u) : ~Live(i)

C6_SuccessStep ==
    \A f \in Futures :
        (HandledNow(f) /\ tasks[f].st = "ok" /\ PlayerOnly(Get(result'))) =>
            \A i \in DOMAIN items :
                i = future_to_item[f] =>
                    /\ Cardinality(TasksOfItem(i)) = items[i].tries
                    /\ \A g \in TasksOfItem(i) \ {f} : tasks[g].st = "handled"
                    /\ items[i].tries - 1 < Max(max_tries, 1)
                    /\ Len(sink') = Len(sink) + 1
                    /\ SubSeq(sink', 1, Len(sink)) = sink
                    /\ sink'[Len(sink')].url = items[i].url
                    /\ sink'[Len(sink')].tries = items[i].tries
                    /\ sink'[Len(sink')].result # None
                    /\ sink'[Len(sink')].error = None
                    /\ ~LiveIn(future_to_item', i)
                    /\ items'[i] = items[i]
                    /\ SeedCount(items[i].url) <= 1 =>
                            RecordsOf(items[i].url) = {}

\* C6: the records of a URL in every state, and every step of run that
\* handles a player-page result, are as above.
C6_RetryThenSuccess == [](C6_OneRecord) /\ [][C6_SuccessStep]_vars

\* the seed failed once and was then read as a player page: one record,
\* a success record with tries = 2
C6_Witness ==
    /\ seed_urls = <<"u1">>
    /\ max_tries = 2
    /\ Len(sink) = 1
    /\ sink[1].url = "u1"
    /\ sink[1].tries = 2
    /\ sink[1].result # None
    /\ sink[1].error = None
    /\ Cardinality(TasksOfUrl("u1")) = 2

(***************************************************************************)
(* C7.  Every record passed to the sink has exactly one of result and      *)
(* error non-null, also when extend_player returns None or the sink or the *)
(* storage raises.                                                         *)
(***************************************************************************)
C7_ExactlyOne ==
    \A k \in DOMAIN sink : (sink[k].result = None) # (sink[k].error = None)

\* records of both kinds were written, and then a write with neither result
\* nor error was attempted
C7_Witness ==
    /\ fatal = "RuntimeError"
    /\ \E k \in DOMAIN sink : sink[k].result # None
    /\ \E k \in DOMAIN sink : sink[k].error # None

(***************************************************************************)
(* C8.  At most max_parallel Fetch Tasks are inside the semaphore block    *)
(* of _download (waiting the delay or fetching).                           *)
(***************************************************************************)
C8_PermitHolders ==
    Cardinality({f \in Futures : InSemaphore(tasks[f])}) <= max_parallel

\* the only permit is held by a task that fetches while another task, started
\* too, waits for it
C8_Witness ==
    /\ max_parallel = 1
    /\ semaphore = 0
    /\ pc = "waiting"
    /\ \E f \in in_air : tasks[f].st = "fetch"
    /\ \E f \in in_air : tasks[f].st = "pending"

(***************************************************************************)
(* The work a run has left, an upper bound on the steps it can still take: *)
(* the steps left to each future (acquire, sleep, complete, be returned by *)
(* asyncio.wait, be handled), the dispatches left to each live Item, to    *)
(* each URL not yet seen and to each seed not yet submitted.               *)
(***************************************************************************)
TaskWork(f) ==
    CASE tasks[f].st = "pending" -> 5
      [] tasks[f].st = "delay" -> 4
      [] tasks[f].st = "fetch" -> 3
      [] Completed(tasks[f]) -> IF f \in in_air THEN 2 ELSE 1
      [] OTHER -> 0

DispatchWork == 5 + 1

ItemWork(i) ==
    IF Live(i) THEN (Max(max_tries, 1) - items[i].tries) * DispatchWork ELSE 0

RECURSIVE TasksWork(_)
TasksWork(n) == IF n = 0 THEN 0 ELSE TaskWork(n) + TasksWork(n - 1)

RECURSIVE ItemsWork(_)
ItemsWork(n) == IF n = 0 THEN 0 ELSE ItemWork(n) + ItemsWork(n - 1)

WorkLeft ==
    (IF pc = "seeding" THEN 1 ELSE 0)
    + (Len(seed_urls) + 1 - seed_idx) * (Max(max_tries, 1) * DispatchWork + 1)
    + Cardinality(Urls \ seen) * Max(max_tries, 1) * DispatchWork
    + ItemsWork(Len(items))
    + TasksWork(Len(tasks))

(***************************************************************************)
(* C9.  Every run ends in Done when each enabled step is eventually taken: *)
(* until Done some step is enabled, and every step lessens the work left,  *)
(* which is never negative.  At Done the In-Flight Set is empty and every  *)
(* future has been handled; no step, so no dispatch, follows Done.         *)
(***************************************************************************)
Done == pc = "done"

C9_AtDone ==
    Done =>
        /\ in_air = {}
        /\ done = {}
        /\ DOMAIN future_to_item = {}
        /\ \A f \in Futures : tasks[f].st = "handled"

\* C9: run always has a step to take until Done, every step lessens the work
\* left, and no step follows Done.
C9_Termination ==
    /\ [](Done \/ ENABLED Next)
    /\ [](WorkLeft >= 0)
    /\ [][WorkLeft' < WorkLeft]_vars
    /\ [](C9_AtDone)
    /\ [][~Done]_vars

\* run has returned after three URLs were fetched, one of them twice
C9_Witness ==
    /\ Done
    /\ Cardinality(seen) = 3
    /\ Len(tasks) >= 4
    /\ in_air = {}

(***************************************************************************)
(* C10.  No Item gets more than one record; a record is written only in    *)
(* the step that drops its Item, and that step does not end run; a dropped *)
(* Item is never dispatched again; the future of every live Item is in the *)
(* In-Flight Set or among the completed futures run is handling, also      *)
(* after a failure record was written, and run then still has a step to    *)
(* take until Done, where every Item has been dropped: with a success      *)
(* record, with a failure record or with no record.                        *)
(***************************************************************************)
FailureWritten == \E k \in DOMAIN sink : sink[k].error # None

C10_RecordsPerItem ==
    \A u \in Urls : Cardinality(RecordsOf(u)) <= Cardinality(ItemsOf(u))

C10_NoneLost ==
    /\ DOMAIN future_to_item = in_air \cup done
    /\ \A i \in DOMAIN items :
          Cardinality({f \in DOMAIN future_to_item : future_to_item[f] = i}) <= 1
    /\ pc \in {"seeding", "waiting", "handling", "done"}
    /\ Done => \A i \in DOMAIN items : ~Live(i)
    /\ (FailureWritten /\ ~Done) => ENABLED Next

C10_Step ==
    /\ Len(sink') <= Len(sink) + 1
    /\ Len(sink') = Len(sink) + 1 =>
          \E f \in done :
              /\ done' = done \ {f}
              /\ sink'[Len(sink')].url = items[future_to_item[f]].url
              /\ ~LiveIn(future_to_item', future_to_item[f])
              /\ \A g \in DOMAIN future_to_item \ {f} :
                    /\ g \in DOMAIN future_to_item'
                    /\ future_to_item'[g] = future_to_item[g]
    /\ \A i \in DOMAIN items :
          (~Live(i) /\ pc # "seeding") => ~LiveIn(future_to_item', i)

\* C10: every state and every step of run are as above.
C10_TerminalOutcomes ==
    /\ [](C10_RecordsPerItem)
    /\ [](C10_NoneLost)
    /\ [][C10_Step]_vars

\* run has ended with one Item failed, one written and one dropped silently
C10_Witness ==
    /\ Done
    /\ Len(items) = 3
    /\ Len(sink) = 2
    /\ \E k \in DOMAIN sink : sink[k].error # None
    /\ \E k \in DOMAIN sink : sink[k].result # None
    /\ \E u \in Urls : ItemsOf(u) # {} /\ RecordsOf(u) = {}

(***************************************************************************)
(* C11.  As claimed: no step constructs an Item for a URL that is in _seen *)
(* when the step begins, whatever the seed list.                           *)
(***************************************************************************)
NewItems == DOMAIN items' \ DOMAIN items

C11_NoItemForSeenStep == \A i \in NewItems : items'[i].url \notin seen

\* C11, as claimed: every step is as above.
C11_NeverForSeen == [][C11_NoItemForSeenStep]_vars

(***************************************************************************)
(* C11, amended.  Seeding constructs and submits one Item for every entry  *)
(* of the seed list, in _seen or not; after Seeding an Item is constructed *)
(* only for a URL that is not in _seen, once, and the URL is in _seen when *)
(* the step ends.  No Item changes its URL.  So after Seeding a URL has as *)
(* many Items as the seed list names it, or one if it was found later.     *)
(***************************************************************************)
SeededSoFar(u) ==
    Cardinality({k \in 1..(seed_idx - 1) : seed_urls[k] = u})

C11_ItemCount ==
    \A u \in Urls :
        Cardinality(ItemsOf(u)) =
            IF pc = "seeding" THEN SeededSoFar(u)
            ELSE Max(SeedCount(u), IF u \in seen THEN 1 ELSE 0)

C11_ItemStep ==
    /\ \A i \in DOMAIN items :
          i \in DOMAIN items' /\ items'[i].url = items[i].url
    /\ (pc = "seeding" /\ seed_idx <= Len(seed_urls)) =>
          /\ NewItems = {Len(items) + 1}
          /\ items'[Len(items) + 1] =
                [url |-> seed_urls[seed_idx], tries |-> 1]
          /\ Len(tasks') = Len(tasks) + 1
          /\ seed_urls[seed_idx] \in seen'
    /\ ~(pc = "seeding" /\ seed_idx <= Len(seed_urls)) =>
          \A i \in NewItems :
              /\ items'[i].url \notin seen
              /\ items'[i].url \in seen'
              /\ items'[i].tries = 1
              /\ \A j \in NewItems : items'[j].url = items'[i].url => j = i

\* C11, amended: every state and every step are as above.
C11_ItemCreation == [](C11_ItemCount) /\ [][C11_ItemStep]_vars

\* the seed list names u1 twice and u1 has two Items; a page handled after
\* Seeding named u1 again and no third Item was constructed
C11_Witness ==
    /\ seed_urls = <<"u1", "u1">>
    /\ Cardinality(ItemsOf("u1")) = 2
    /\ result # None
    /\ Get(result).next_urls = <<"u1">>
    /\ Len(items) = 2

(***************************************************************************)
(* C12.  As claimed: when run handles a future, every future that          *)
(* completed before it has been handled, also within one batch.            *)
(***************************************************************************)
FinishedBefore(f) ==
    {finished[k] : k \in {k \in DOMAIN finished :
                             \E m \in DOMAIN finished : finished[m] = f /\ k < m}}

C12_FinishOrderStep ==
    \A f \in Futures :
        HandledNow(f) =>
            \A g \in FinishedBefore(f) : tasks[g].st = "handled"

\* C12, as claimed: every step of run that handles a future is as above.
C12_InFinishOrder == [][C12_FinishOrderStep]_vars

(***************************************************************************)
(* C12, amended.  Completions are handled batch by batch.  A batch is the  *)
(* futures that have completed when asyncio.wait returns: all of them and  *)
(* no other; run handles every future of the batch before it waits again,  *)
(* and no task completes meanwhile, so a future that completes after a     *)
(* return of asyncio.wait is handled after every future that return gave.  *)
(* Within a batch any future may be handled next, whatever the order in    *)
(* which they completed.                                                   *)
(***************************************************************************)
C12_Batch ==
    /\ pc = "waiting" =>
          /\ done = {}
          /\ Range(finished) = DoneOf(in_air)
    /\ pc = "handling" =>
          /\ done # {}
          /\ DoneOf(in_air) = {}
          /\ done \subseteq Range(finished)
          /\ \A g \in Range(finished) \ done : tasks[g].st = "handled"
          /\ \A f \in done : ENABLED (Handle /\ done' = done \ {f})
    /\ \A f \in Futures : Completed(tasks[f]) => f \in Range(finished)

C12_BatchStep ==
    \A f \in Futures :
        /\ HandledNow(f) => f \in Range(finished)
        /\ (~Completed(tasks[f]) /\ Completed(tasks'[f])) =>
              /\ done = {}
              /\ \A g \in Futures : Completed(tasks[g]) => g \in in_air
              /\ finished' = Append(finished, f)

\* C12, amended: every state and every step are as above.
C12_BatchOrder == [](C12_Batch) /\ [][C12_BatchStep]_vars

\* two futures completed before asyncio.wait returned; the one that completed
\* last has been handled and the one that completed first has not
C12_Witness ==
    /\ pc = "handling"
    /\ Len(finished) = 2
    /\ tasks[finished[2]].st = "handled"
    /\ finished[1] \in done
    /\ Completed(tasks[finished[1]])

(***************************************************************************)
(* C13.  A write with neither result nor error is attempted when           *)
(* extend_player returns None for a player page: _write raises             *)
(* RuntimeError, the sink gets nothing, and the Item, already popped, is   *)
(* not submitted again, whatever tries it has left: run ends there, and   *)
(* whatever the tasks left do afterwards, no step of run follows.          *)
(***************************************************************************)
C13_InvalidStep ==
    (fatal = "None" /\ fatal' = "RuntimeError") =>
        \E f \in done :
            /\ HandledNow(f)
            /\ tasks[f].st = "ok"
            /\ PlayerBranch(Get(result'))
            /\ sink' = sink
            /\ pc' = "crashed"
            /\ ~LiveIn(future_to_item', future_to_item[f])
            /\ items' = items
            /\ Len(tasks') = Len(tasks)
            /\ in_air' = in_air

C13_AfterInvalid ==
    fatal = "RuntimeError" =>
        /\ pc = "crashed"
        /\ result # None
        /\ PlayerBranch(Get(result))
        /\ ~ENABLED RunStep

C13_EndedStep == fatal = "RuntimeError" => UNCHANGED RunState

\* C13: every state and every step are as above.
C13_InvalidWrite ==
    /\ [](C13_AfterInvalid)
    /\ [][C13_InvalidStep]_vars
    /\ [][C13_EndedStep]_vars

\* the first dispatch of the only seed was read as a player page for which
\* extend_player returned None: nothing is written, and the Item is dropped
\* with one of its two tries left
C13_Witness ==
    /\ seed_urls = <<"u1">>
    /\ max_tries = 2
    /\ fatal = "RuntimeError"
    /\ sink = <<>>
    /\ items = <<[url |-> "u1", tries |-> 1]>>
    /\ ~Live(1)
    /\ Len(tasks) = 1

(***************************************************************************)
(* C14.  An exception of the sink or of the storage, raised while run      *)
(* handles a future, ends run: the Item of the future is not submitted     *)
(* again and its tries stay, nothing is written, and no step of run        *)
(* follows, so the futures left in _in_air and in the batch stay there,    *)
(* whatever their tasks do afterwards.                                     *)
(***************************************************************************)
CollaboratorErrors == {"SinkError", "StorageError"}

C14_RaiseStep ==
    (fatal = "None" /\ fatal' \in CollaboratorErrors) =>
        \E f \in done :
            /\ HandledNow(f)
            /\ pc' = "crashed"
            /\ ~LiveIn(future_to_item', future_to_item[f])
            /\ items' = items
            /\ Len(tasks') = Len(tasks)
            /\ in_air' = in_air
            /\ sink' = sink
            /\ fatal' = "StorageError" => tasks[f].st = "ok"

C14_AfterRaise ==
    /\ (fatal # "None") = (pc = "crashed")
    /\ fatal # "None" => ~ENABLED RunStep

C14_EndedStep == fatal # "None" => UNCHANGED RunState

\* C14: every state and every step are as above.
C14_Fatal ==
    /\ [](C14_AfterRaise)
    /\ [][C14_RaiseStep]_vars
    /\ [][C14_EndedStep]_vars

\* the sink raised on the failure record of an Item out of tries; the future
\* of a live Item is left in _in_air, its task not yet started
C14_Witness ==
    /\ fatal = "SinkError"
    /\ result = None
    /\ sink = <<>>
    /\ \E f \in in_air : tasks[f].st = "pending" /\ Live(tasks[f].item)

(***************************************************************************)
(* C15.  The task of every future, of a first dispatch or of a retry,      *)
(* takes a permit, calls get_delay once and waits the delay, then fetches  *)
(* and parses; it gives the permit back when it completes and not before,  *)
(* so a task that waits its delay holds one of the max_parallel permits.   *)
(***************************************************************************)
DelayCalls(f) == IF f \in DOMAIN delays THEN delays[f] ELSE 0

C15_Stages ==
    /\ \A f \in Futures :
          DelayCalls(f) = IF tasks[f].st = "pending" THEN 0 ELSE 1
    /\ DOMAIN delays \subseteq Futures
    /\ \A f \in Futures : tasks[f].st = "delay" => semaphore < max_parallel

C15_TaskStep ==
    \A f \in Futures :
        tasks'[f].st # tasks[f].st =>
            \/ /\ tasks[f].st = "pending" /\ tasks'[f].st = "delay"
               /\ semaphore > 0
               /\ semaphore' = semaphore - 1
               /\ DelayCalls(f)' = 1
            \/ /\ tasks[f].st = "delay" /\ tasks'[f].st = "fetch"
               /\ semaphore' = semaphore
               /\ delays' = delays
            \/ /\ tasks[f].st = "fetch" /\ tasks'[f].st = "ok"
               /\ semaphore' = semaphore + 1
               /\ delays' = delays
            \/ /\ tasks[f].st \in {"delay", "fetch"} /\ tasks'[f].st = "err"
               /\ semaphore' = semaphore + 1
               /\ delays' = delays
            \/ /\ Completed(tasks[f]) /\ tasks'[f].st = "handled"
               /\ semaphore' = semaphore
               /\ delays' = delays

\* C15: every state and every step of a task are as above.
C15_DispatchOrder == [](C15_Stages) /\ [][C15_TaskStep]_vars

\* the task of a retry waits its delay with the only permit, and the task of
\* another Item cannot start
C15_Witness ==
    /\ max_parallel = 1
    /\ pc = "waiting"
    /\ semaphore = 0
    /\ \E f \in in_air :
          /\ tasks[f].st = "delay"
          /\ items[tasks[f].item].tries = 2
          /\ DelayCalls(f) = 1
    /\ \E g \in in_air : tasks[g].st = "pending"
    /\ ~ENABLED AcquireSome

(***************************************************************************)
(* C16.  The URL of every Item is in _seen from the step that creates its  *)
(* first future, so before any step of its task; no step takes a URL out   *)
(* of _seen; a retry leaves _seen, the sink and the storage as they are:   *)
(* it adds one to the tries of its Item and puts one new future, for that  *)
(* Item, into the In-Flight Set.                                           *)
(***************************************************************************)
C16_SeenFirst ==
    /\ \A i \in DOMAIN items : items[i].url \in seen
    /\ \A f \in Futures : items[tasks[f].item].url \in seen
    /\ seen \subseteq Urls

RetryNow(f) ==
    /\ HandledNow(f)
    /\ tasks[f].st = "err"
    /\ items[future_to_item[f]].tries < max_tries

C16_GrowStep ==
    /\ seen \subseteq seen'
    /\ \A f \in Futures :
          RetryNow(f) =>
              /\ seen' = seen
              /\ sink' = sink
              /\ pl_storage' = pl_storage
              /\ items' = [items EXCEPT ![future_to_item[f]].tries = @ + 1]
              /\ tasks' = Append([tasks EXCEPT ![f].st = "handled"],
                                 [item |-> future_to_item[f], st |-> "pending"])
              /\ in_air' = in_air \cup {Len(tasks) + 1}
              /\ DOMAIN future_to_item' =
                    (DOMAIN future_to_item \ {f}) \cup {Len(tasks) + 1}
              /\ future_to_item'[Len(tasks) + 1] = future_to_item[f]

\* C16: every state and every step are as above.
C16_FrontierGrows == [](C16_SeenFirst) /\ [][C16_GrowStep]_vars

\* the only seed failed and was submitted again: one URL in _seen, nothing
\* written, and the task of the retry has not started
C16_Witness ==
    /\ seed_urls = <<"u1">>
    /\ seen = {"u1"}
    /\ sink = <<>>
    /\ items = <<[url |-> "u1", tries |-> 2]>>
    /\ Len(tasks) = 2
    /\ tasks[1].st = "handled"
    /\ tasks[2].st = "pending"
    /\ in_air = {2}

(***************************************************************************)
(* C17.  Whatever the kind of the error a failed future holds, run handles *)
(* it the same way.  The tries of its Item count its dispatches, all       *)
(* failed.  With tries < max_tries the Item is submitted again and nothing *)
(* is written; otherwise the Item is dropped with one failure record,      *)
(* which differs between the kinds only in the text of its error.          *)
(***************************************************************************)
RetryOutcome(f, i) ==
    /\ sink' = sink
    /\ items' = [items EXCEPT ![i].tries = @ + 1]
    /\ LiveIn(future_to_item', i)
    /\ Len(tasks') = Len(tasks) + 1

FinalOutcome(f, i, e) ==
    /\ sink' = Append(sink, [url |-> items[i].url, tries |-> items[i].tries,
                             result |-> None, error |-> Some(ErrStr(e))])
    /\ items' = items
    /\ ~LiveIn(future_to_item', i)
    /\ Len(tasks') = Len(tasks)

C17_AnyKind ==
    pc = "handling" =>
        \A f \in done :
            tasks[f].st = "err" =>
                \E i \in DOMAIN items :
                    /\ i = future_to_item[f]
                    /\ items[i].tries = Cardinality(TasksOfItem(i))
                    /\ \A g \in TasksOfItem(i) \ {f} : tasks[g].st = "handled"
                    /\ \A e \in Errors :
                          /\ ENABLED HandleFailure(f, e, "none")
                          /\ ~ENABLED (HandleFailure(f, e, "none") /\
                                ~(IF items[i].tries < max_tries
                                  THEN RetryOutcome(f, i)
                                  ELSE FinalOutcome(f, i, e)))

\* C17: every state in which run has a failed future to handle is as above.
C17_KindBlind == [](C17_AnyKind)

\* with max_tries = 2 one Item ended on a parse error and one on a timeout,
\* each after two dispatches
C17_Witness ==
    /\ max_tries = 2
    /\ Len(sink) = 2
    /\ sink[1].error = Some(ErrStr("ParseError"))
    /\ sink[2].error = Some(ErrStr("TimeoutError"))
    /\ sink[1].tries = 2
    /\ sink[2].tries = 2

(***************************************************************************)
(* C18.  A step of a Fetch Task leaves _in_air, _seen, the Items with      *)
(* their tries and the future-to-Item map as they are: they change only in *)
(* steps of run (Seeding, the return of asyncio.wait, the handling of a    *)
(* future).  While run seeds or handles a batch no task can take a step.   *)
(* So a URL that no seed names gets one Item at most, also when two        *)
(* results of one batch name it.                                           *)
(***************************************************************************)
LoopState == <<in_air, seen, items, future_to_item, done, sink, pl_storage>>

C18_OwnerStep ==
    /\ TaskStep => UNCHANGED LoopState
    /\ LoopState' # LoopState =>
          \/ pc = "seeding"
          \/ pc = "handling"
          \/ pc = "waiting" /\ pc' = "handling"
    /\ (pc = "handling" /\ pc' = "handling") =>
          \A f \in Futures :
              tasks'[f].st # tasks[f].st => f \in done /\ tasks'[f].st = "handled"

C18_NoInterleaving ==
    /\ pc \in {"seeding", "handling"} => ~ENABLED TaskStep
    /\ \A u \in Urls : SeedCount(u) = 0 => Cardinality(ItemsOf(u)) <= 1

\* C18: every state and every step are as above.
C18_LoopOwns == [](C18_NoInterleaving) /\ [][C18_OwnerStep]_vars

\* the two seeds completed before asyncio.wait returned.  The one handled
\* first named u3, and the task of u3 could take its permit but does not run;
\* the other can now be handled with a result that names u3 too, and no Item
\* is constructed
C18_Witness ==
    /\ seed_urls = <<"u1", "u2">>
    /\ pc = "handling"
    /\ Range(finished) = {1, 2}
    /\ Cardinality(done) = 1
    /\ \A f \in done : tasks[f].st = "ok"
    /\ result # None
    /\ Get(result).next_urls = <<"u3">>
    /\ Len(items) = 3
    /\ items[3].url = "u3"
    /\ tasks[3].st = "pending"
    /\ semaphore > 0
    /\ ~ENABLED TaskStep
    /\ ENABLED (HandleSuccessSome /\ Get(result').next_urls = <<"u3">>
                    /\ items' = items)

(***************************************************************************)
(* C19.  With a seed list that names no URL twice and max_tries >= 1, a    *)
(* URL has one Item at most and max_tries futures at most over a run.  A   *)
(* result that names a URL of _seen, be its Item in flight, between two    *)
(* dispatches or dropped, leaves the Items and the futures of that URL as  *)
(* they are.                                                               *)
(***************************************************************************)
DistinctSeeds == \A u \in Urls : SeedCount(u) <= 1

C19_Budget ==
    (DistinctSeeds /\ max_tries >= 1) =>
        \A u \in Urls :
            /\ Cardinality(ItemsOf(u)) <= 1
            /\ Cardinality(TasksOfUrl(u)) <= max_tries
            /\ \A i \in ItemsOf(u) : items[i].tries = Cardinality(TasksOfUrl(u))

C19_RediscoverStep ==
    \A f \in Futures :
        (HandledNow(f) /\ tasks[f].st = "ok") =>
            \A u \in Range(Get(result').next_urls) \cap seen :
                /\ ItemsOf(u)' = ItemsOf(u)
                /\ TasksOfUrl(u)' = TasksOfUrl(u)
                /\ \A i \in ItemsOf(u) : items'[i] = items[i]

\* C19: every state and every step of run that handles a result are as above.
C19_TotalDispatches == [](C19_Budget) /\ [][C19_RediscoverStep]_vars

\* u1 failed twice and has its failure record; u2, read afterwards as a
\* player page, names u1: u1 keeps its two futures, both handled
C19_Witness ==
    /\ seed_urls = <<"u1", "u2">>
    /\ max_tries = 2
    /\ Len(items) = 2
    /\ Len(sink) = 2
    /\ sink[1].url = "u1" /\ sink[1].error # None /\ sink[1].tries = 2
    /\ sink[2].url = "u2" /\ sink[2].result # None
    /\ result # None
    /\ Get(result).next_urls = <<"u1">>
    /\ Cardinality(TasksOfUrl("u1")) = 2
    /\ \A f \in TasksOfUrl("u1") : tasks[f].st = "handled"

(***************************************************************************)
(* C20.  The free permits and the tasks inside the semaphore block add up  *)
(* to max_parallel in every state: a task that an exception ends has given *)
(* its permit back like one that returns, and at Done every permit is      *)
(* free.                                                                   *)
(***************************************************************************)
Holders == {f \in Futures : InSemaphore(tasks[f])}

C20_Conserved ==
    /\ semaphore + Cardinality(Holders) = max_parallel
    /\ semaphore \in 0..max_parallel
    /\ \A f \in Futures :
          (Completed(tasks[f]) \/ tasks[f].st = "handled") => f \notin Holders
    /\ Done => semaphore = max_parallel

\* C20: every state is as above.
C20_Permits == [](C20_Conserved)

\* run has ended after four dispatches, one of them the last of an Item
\* that failed twice, and both permits are free
C20_Witness ==
    /\ Done
    /\ max_parallel = 2
    /\ max_tries = 2
    /\ semaphore = 2
    /\ Len(tasks) >= 4
    /\ \E k \in DOMAIN sink : sink[k].error # None /\ sink[k].tries = 2
=============================================================================
